---- MODULE Spec2Model ----
(***************************************************************************)
(* Metalworking order-tracking backend (src/backend/server.js) and its     *)
(* analytical SQL queries (src/queries.sql, src/unnamed/part_000).         *)
(*                                                                         *)
(* Spec      : the HTTP API as a state machine over the users / orders /   *)
(*             order_status_history tables, the issued JWTs, the pg pool   *)
(*             and the requests in flight.  Every `await` of a handler is  *)
(*             a point where other requests may interleave.                *)
(* SpecRoute : the "current step" query Q5 run on every routing of two     *)
(*             order items.                                                *)
(* SpecWip   : the work-in-progress queries Q15 and Q16 run on every small *)
(*             set of route steps and order statuses.                      *)
(* SpecOverdue : the overdue-steps query Q13 run again and again while the *)
(*             clock advances and steps are finished.                      *)
(* SpecLogs  : the mean-duration query Q9 run while logs are added.        *)
(* SpecEquipment : the equipment-utilization query Q8 run while logs are   *)
(*             added.                                                      *)
(* SpecAdmins : DELETE /users/:id requests of two logged-in administrators.*)
(***************************************************************************)
EXTENDS Integers, Sequences, FiniteSets, TLC

VARIABLES
    users,        \* table users: id -> [username, password_hash, role]
    nextUserId,   \* serial of users.id
    orders,       \* table orders: id -> [status, updated]
    nextOrderId,  \* serial of orders.id
    history,      \* table order_status_history: order id -> its statuses, oldest first
    tokens,       \* JWT payloads signed so far (jwt.sign)
    reqs,         \* request slot -> the request being handled there, or Idle
    checkedOut,   \* number of pool clients checked out and not released
    last,         \* the response the last step sent, [req, code], or NoResp
    arrived,      \* number of requests received so far
    orderItems,   \* table order_items: id -> [order_id, product_id]
    routeSteps,   \* table route_steps: id -> [order_item_id, step_no,
                  \*   operation_id, workshop_id, status, planned_minutes]
    reports,      \* query name -> the rows its last run returned
    operationLogs,\* table operation_logs: id -> [route_step_id, equipment_id,
                  \*   status, started_at, finished_at]
    now           \* the clock of the database, NOW()

apiVars == <<users, nextUserId, nextOrderId, history, tokens, reqs,
             checkedOut, last, arrived>>

routingVars == <<orderItems, routeSteps, reports, operationLogs, now>>

vars == <<apiVars, orders, routingVars>>

----------------------------------------------------------------------------
(* Bounds of the model. *)

MaxArrivals == 3   \* requests the clients send in a run
MaxReq == 2        \* requests handled concurrently

Slots == 1..MaxReq

----------------------------------------------------------------------------
(* Values. *)

OrderStatuses == {"NEW", "PLANNED", "IN_PROGRESS", "DONE", "CANCELED"}

\* req.body.status as a client may send it: absent (""), a status of the
\* data model, or any other non-empty string.
BodyStatuses == {"", "DONE", "BOGUS"}

\* req.body of POST /login and POST /users; "" is a missing field.
Names == {"", "a", "b", "c"}
Passwords == {"", "p", "q"}
NewNames == {"", "a", "c"}
NewPasswords == {"", "p"}

DigitChars == <<"0", "1", "2", "3", "4", "5", "6", "7", "8", "9">>

IsDigit(c) == \E i \in 1..10 : DigitChars[i] = c

DigitVal(c) == (CHOOSE i \in 1..10 : DigitChars[i] = c) - 1

\* The result of parseInt / of pg's integer input when there is no number.
NaN == -1

\* parseInt(s, 10) on a string without leading blanks or sign: the value of
\* the longest prefix of decimal digits, NaN when that prefix is empty.
RECURSIVE ParseDigits(_, _, _)
ParseDigits(s, i, acc) ==
    IF i > Len(s) \/ ~IsDigit(s[i])
    THEN acc
    ELSE ParseDigits(s, i + 1, acc * 10 + DigitVal(s[i]))

ParseInt(s) ==
    IF Len(s) = 0 \/ ~IsDigit(s[1]) THEN NaN ELSE ParseDigits(s, 1, 0)

\* PostgreSQL's conversion of a text parameter to the integer id column:
\* the whole text must be a decimal number, anything else is an
\* "invalid input syntax" error (NaN here).
PgInt(s) ==
    IF Len(s) > 0 /\ \A i \in 1..Len(s) : IsDigit(s[i])
    THEN ParseDigits(s, 1, 0)
    ELSE NaN

\* req.params.id as a client may send it: the decimal text of an id that
\* was issued or of the next one to be, or text that is no number.
IdParams(nextId) ==
    {<<DigitChars[i + 1]>> : i \in 1..nextId} \cup {<<"2", "x">>, <<"x">>}

\* bcrypt.hash / bcrypt.compare.
Hash(pw) == <<"bcrypt", pw>>

Compare(pw, h) == Hash(pw) = h

Roles == {"ADMIN", "MANAGER"}

NoUser == [id |-> 0, role |-> "NONE"]

\* jwt.sign of a users row: the payload carries id and role.
generateToken(id, user) == [id |-> id, role |-> user.role]

Kinds == {"statsmv", "send", "login", "listUsers", "createUser",
          "deleteUser", "listOrders", "patchStatus", "deleteOrder", "stats"}

NoRow == [id |-> 0, role |-> "NONE", password_hash |-> <<>>]

\* A request: the handler (kind), req.user, req.params.id, the body fields,
\* the users row a login has read, and the handler's position (pc).
Idle == [kind |-> "idle", user |-> NoUser, id |-> <<>>, status |-> "",
         name |-> "", pw |-> "", role |-> "", row |-> NoRow, pc |-> "idle"]

NoResp == [req |-> Idle, code |-> 0]

\* The Authorization header: absent; not "Bearer <token>" or a token that
\* jwt.verify refuses (bad signature, expired); or a token this server signed.
\* A token that has expired is a BadHeader from then on.
NoHeader == [id |-> 0, role |-> "ABSENT"]
BadHeader == [id |-> 0, role |-> "INVALID"]

AuthHeaders == {NoHeader, BadHeader} \cup tokens

----------------------------------------------------------------------------
(* Middleware: 0 stands for next(). *)

authMiddleware(h) == IF h \in tokens THEN 0 ELSE 401

adminOnlyMiddleware(u) == IF u.role # "ADMIN" THEN 403 ELSE 0

\* The first refusal of a chain of checks, 0 when all pass.
FirstCode(codes) ==
    IF \E i \in 1..Len(codes) : codes[i] # 0
    THEN codes[CHOOSE i \in 1..Len(codes) :
                 codes[i] # 0 /\ \A j \in 1..(i - 1) : codes[j] = 0]
    ELSE 0

ReleasesOnSuccessOnly(exit) == exit = "ok"

\* `finally { client.release() }`: the exits of the inner try block on which
\* the client goes back to the pool ("ok": the success response, "early": a
\* 401/404/400 return inside the block, "error": the query threw).
ReleasesOn(exit) == exit \in {"ok", "early", "error"}

\* res.status(code).json(...) for the request r of slot s.
Respond(s, r, code) ==
    /\ reqs' = [reqs EXCEPT ![s] = Idle]
    /\ last' = [req |-> [r EXCEPT !.pc = "done"], code |-> code]

FirstQuery(kind) == IF kind = "stats" THEN "q1" ELSE "query"

\* A request arrives; it is handled on the first idle slot, s (which slot a
\* request occupies has no meaning in the program).
Arrival(s) ==
    /\ reqs[s] = Idle
    /\ \A t \in Slots : t < s => reqs[t] # Idle
    /\ arrived < MaxArrivals
    /\ arrived' = arrived + 1
    /\ UNCHANGED routingVars

\* The request r that arrived on slot s runs up to its first query: refused
\* with `code` by the middleware or the validation, or past
\* `const client = await pool.connect()`, which checks a client out or
\* rejects (the outer catch answers 500, there is nothing to release).
\* The pool (10 clients by default) is larger than MaxReq, and connect()
\* reads and writes nothing but the pool, so it is one step with the arrival.
Enter(s, r, code) ==
    /\ IF code # 0
       THEN /\ Respond(s, r, code)
            /\ UNCHANGED checkedOut
       ELSE \E ok \in BOOLEAN :
            IF ok
            THEN /\ reqs' = [reqs EXCEPT ![s] = [r EXCEPT !.pc = FirstQuery(r.kind)]]
                 /\ checkedOut' = checkedOut + 1
                 /\ last' = NoResp
            ELSE /\ Respond(s, r, 500)
                 /\ UNCHANGED checkedOut
    /\ UNCHANGED <<users, nextUserId, orders, nextOrderId, history, tokens>>

\* The handler leaves its inner try block with a response.
Finish(s, code, exit) ==
    /\ Respond(s, reqs[s], code)
    /\ checkedOut' = IF ReleasesOn(exit) THEN checkedOut - 1 ELSE checkedOut

\* The handler `kind` of slot s resumes after its await at pc.
At(s, kind, pc) ==
    /\ reqs[s].kind = kind
    /\ reqs[s].pc = pc
    /\ UNCHANGED routingVars

----------------------------------------------------------------------------
(* Initial state: the server has started on a database holding an            *)
(* administrator, a manager and one new order with its ledger row; no token  *)
(* has been signed, no request is in flight, the pool is full.               *)

SeedUsers ==
    (1 :> [username |-> "a", password_hash |-> Hash("p"), role |-> "ADMIN"])
        @@ (2 :> [username |-> "b", password_hash |-> Hash("p"),
                  role |-> "MANAGER"])

Init ==
    /\ users = SeedUsers
    /\ nextUserId = 3
    /\ orders = (1 :> [status |-> "NEW", updated |-> FALSE])
    /\ nextOrderId = 2
    /\ history = (1 :> <<"NEW">>)
    /\ tokens = {}
    /\ reqs = [s \in Slots |-> Idle]
    /\ checkedOut = 0
    /\ last = NoResp
    /\ arrived = 0
    /\ orderItems = <<>>
    /\ routeSteps = <<>>
    /\ reports = <<>>
    /\ operationLogs = <<>>
    /\ now = 0

----------------------------------------------------------------------------
(* Arrival of a request: middleware and validation, up to the first await.  *)
(* A request record holds the fields the handler has read so far.           *)

\* GET /stats/mv
StatsMv_Begin(s) ==
    /\ Arrival(s)
    /\ \E h \in AuthHeaders :
           LET r == [Idle EXCEPT !.kind = "statsmv", !.user = h]
           IN Enter(s, r, FirstCode(<<authMiddleware(h), adminOnlyMiddleware(h)>>))

\* POST /send
Send_Begin(s) ==
    /\ Arrival(s)
    /\ \E name \in {"", "a"}, tel \in {"", "p"} :
        LET r == [Idle EXCEPT !.kind = "send", !.name = name, !.pw = tel]
        IN Enter(s, r, IF name = "" \/ tel = "" THEN 400 ELSE 0)

\* POST /login
Login_Begin(s) ==
    /\ Arrival(s)
    /\ \E username \in Names, password \in Passwords :
           LET r == [Idle EXCEPT !.kind = "login", !.name = username,
                                 !.pw = password]
           IN Enter(s, r, IF username = "" \/ password = "" THEN 400 ELSE 0)

\* GET /users
ListUsers_Begin(s) ==
    /\ Arrival(s)
    /\ \E h \in AuthHeaders :
           LET r == [Idle EXCEPT !.kind = "listUsers", !.user = h]
           IN Enter(s, r, FirstCode(<<authMiddleware(h), adminOnlyMiddleware(h)>>))

\* POST /users
CreateUser_Begin(s) ==
    /\ Arrival(s)
    /\ \E h \in AuthHeaders :
        LET r == [Idle EXCEPT !.kind = "createUser", !.user = h]
            refused == FirstCode(<<authMiddleware(h), adminOnlyMiddleware(h)>>)
        IN IF refused # 0
           THEN Enter(s, r, refused)
           ELSE \E username \in NewNames, password \in NewPasswords,
                   role \in {"", "ADMIN"} :
                    Enter(s, [r EXCEPT !.name = username, !.pw = password,
                                       !.role = role],
                          IF username = "" \/ password = "" THEN 400 ELSE 0)

\* The guard of DELETE /users/:id: userId === req.user.id.
IsSelfNever(userId, user) == FALSE

IsSelf(userId, user) == userId = user.id

\* DELETE /users/:id
DeleteUser_Begin(s) ==
    /\ Arrival(s)
    /\ \E h \in AuthHeaders :
           LET r == [Idle EXCEPT !.kind = "deleteUser", !.user = h]
               refused == FirstCode(<<authMiddleware(h), adminOnlyMiddleware(h)>>)
           IN IF refused # 0
              THEN \E id \in IdParams(nextUserId) : Enter(s, [r EXCEPT !.id = id], refused)
              ELSE \E id \in IdParams(nextUserId) :
                       Enter(s, [r EXCEPT !.id = id],
                             IF IsSelf(ParseInt(id), h) THEN 400 ELSE 0)

\* GET /orders
ListOrders_Begin(s) ==
    /\ Arrival(s)
    /\ \E h \in AuthHeaders :
           LET r == [Idle EXCEPT !.kind = "listOrders", !.user = h]
           IN Enter(s, r, authMiddleware(h))

\* PATCH /orders/:id/status
PatchStatus_Begin(s) ==
    /\ Arrival(s)
    /\ \E h \in AuthHeaders :
           LET r == [Idle EXCEPT !.kind = "patchStatus", !.user = h]
           IN IF authMiddleware(h) # 0
              THEN Enter(s, r, authMiddleware(h))
              ELSE \E id \in IdParams(nextOrderId), status \in BodyStatuses :
                       Enter(s, [r EXCEPT !.id = id, !.status = status],
                             IF status = "" THEN 400 ELSE 0)

\* DELETE /orders/:id
DeleteOrder_Begin(s) ==
    /\ Arrival(s)
    /\ \E h \in AuthHeaders :
           LET r == [Idle EXCEPT !.kind = "deleteOrder", !.user = h]
           IN IF authMiddleware(h) # 0
              THEN Enter(s, r, authMiddleware(h))
              ELSE \E id \in IdParams(nextOrderId) :
                       Enter(s, [r EXCEPT !.id = id], 0)

\* GET /stats
Stats_Begin(s) ==
    /\ Arrival(s)
    /\ \E h \in AuthHeaders :
           LET r == [Idle EXCEPT !.kind = "stats", !.user = h]
           IN Enter(s, r, authMiddleware(h))

----------------------------------------------------------------------------
(* Steps of the handlers after an await. *)

\* A query that only reads: rows (200) or a thrown error (500).
ReadOnly_Query(s) ==
    /\ \E fail \in BOOLEAN :
        IF fail THEN Finish(s, 500, "error") ELSE Finish(s, 200, "ok")
    /\ UNCHANGED <<users, nextUserId, orders, nextOrderId, history, tokens,
                   arrived>>

\* GET /stats/mv: SELECT * FROM order_stats_mv
StatsMv_Query(s) ==
    /\ At(s, "statsmv", "query")
    /\ ReadOnly_Query(s)

\* GET /users: SELECT ... FROM users
ListUsers_Query(s) ==
    /\ At(s, "listUsers", "query")
    /\ ReadOnly_Query(s)

\* GET /orders: SELECT ... FROM orders
ListOrders_Query(s) ==
    /\ At(s, "listOrders", "query")
    /\ ReadOnly_Query(s)

\* POST /send: INSERT INTO orders ... RETURNING id, created_at.  The row
\* gets the column default of status and no ledger row is written.
Send_Query(s) ==
    /\ At(s, "send", "query")
    /\ \E fail \in BOOLEAN :
        IF fail
        THEN /\ Finish(s, 500, "error")
             /\ UNCHANGED <<orders, nextOrderId>>
        ELSE /\ orders' = orders @@
                    (nextOrderId :> [status |-> "NEW", updated |-> FALSE])
             /\ nextOrderId' = nextOrderId + 1
             /\ Finish(s, 201, "ok")
    /\ UNCHANGED <<users, nextUserId, history, tokens, arrived>>

\* POST /login: SELECT * FROM users WHERE username = $1, then the handler
\* awaits bcrypt.compare with the client still checked out.
Login_Query(s) ==
    /\ At(s, "login", "query")
    /\ \E fail \in BOOLEAN :
        LET rows == {i \in DOMAIN users : users[i].username = reqs[s].name}
        IN IF fail
           THEN Finish(s, 500, "error")
           ELSE IF rows = {}
           THEN Finish(s, 401, "early")
           ELSE LET i == CHOOSE i \in rows : TRUE
                IN /\ reqs' = [reqs EXCEPT
                            ![s].row = [id |-> i, role |-> users[i].role,
                                        password_hash |-> users[i].password_hash],
                            ![s].pc = "compare"]
                   /\ last' = NoResp
                   /\ UNCHANGED checkedOut
    /\ UNCHANGED <<users, nextUserId, orders, nextOrderId, history, tokens,
                   arrived>>

\* POST /login after bcrypt.compare: 401, or a token for the row read.
Login_Compare(s) ==
    /\ At(s, "login", "compare")
    /\ IF Compare(reqs[s].pw, reqs[s].row.password_hash)
       THEN /\ tokens' = tokens \cup {generateToken(reqs[s].row.id, reqs[s].row)}
            /\ Finish(s, 200, "ok")
       ELSE /\ Finish(s, 401, "early")
            /\ UNCHANGED tokens
    /\ UNCHANGED <<users, nextUserId, orders, nextOrderId, history, arrived>>

\* POST /users: INSERT INTO users ... RETURNING.  A taken username is the
\* unique violation 23505 (400); the serial is consumed either way.
CreateUser_Query(s) ==
    /\ At(s, "createUser", "query")
    /\ \E fail \in BOOLEAN :
        LET r == reqs[s]
            userRole == IF r.role = "ADMIN" THEN "ADMIN" ELSE "MANAGER"
        IN IF fail
           THEN /\ Finish(s, 500, "error")
                /\ UNCHANGED <<users, nextUserId>>
           ELSE IF \E i \in DOMAIN users : users[i].username = r.name
           THEN /\ Finish(s, 400, "error")
                /\ nextUserId' = nextUserId + 1
                /\ UNCHANGED users
           ELSE /\ users' = users @@
                       (nextUserId :> [username |-> r.name,
                                       password_hash |-> Hash(r.pw),
                                       role |-> userRole])
                /\ nextUserId' = nextUserId + 1
                /\ Finish(s, 201, "ok")
    /\ UNCHANGED <<orders, nextOrderId, history, tokens, arrived>>

\* The answer after UPDATE/DELETE ... RETURNING: 404 when
\* result.rows.length === 0, the success response otherwise.
WriteCodeNoCheck(found) == 200

WriteCode(found) == IF found THEN 200 ELSE 404

\* DELETE /users/:id: DELETE FROM users WHERE id = $1 RETURNING id, with
\* $1 = parseInt(req.params.id, 10); NaN is no integer for PostgreSQL.
DeleteUser_Query(s) ==
    /\ At(s, "deleteUser", "query")
    /\ \E fail \in BOOLEAN :
        LET userId == ParseInt(reqs[s].id)
            found == userId \in DOMAIN users
        IN IF fail \/ userId = NaN
           THEN /\ Finish(s, 500, "error")
                /\ UNCHANGED users
           ELSE /\ users' = [i \in DOMAIN users \ {userId} |-> users[i]]
                /\ Finish(s, WriteCode(found), IF found THEN "ok" ELSE "early")
    /\ UNCHANGED <<nextUserId, orders, nextOrderId, history, tokens,
                   arrived>>

\* PATCH /orders/:id/status: UPDATE orders SET status = $1, updated_at =
\* NOW() WHERE id = $2 RETURNING *, with $2 the text of req.params.id.
PatchStatus_Query(s) ==
    /\ At(s, "patchStatus", "query")
    /\ \E fail \in BOOLEAN :
        LET orderId == PgInt(reqs[s].id)
            found == orderId \in DOMAIN orders
        IN IF fail \/ orderId = NaN
           THEN /\ Finish(s, 500, "error")
                /\ UNCHANGED orders
           ELSE /\ orders' = [i \in DOMAIN orders |->
                                 IF i = orderId
                                 THEN [status |-> reqs[s].status,
                                       updated |-> TRUE]
                                 ELSE orders[i]]
                /\ Finish(s, WriteCode(found), IF found THEN "ok" ELSE "early")
    /\ UNCHANGED <<users, nextUserId, nextOrderId, history, tokens,
                   arrived>>

\* DELETE /orders/:id: DELETE FROM orders WHERE id = $1 RETURNING id.  The
\* ledger rows of the order cannot outlive it (foreign key).
DeleteOrder_Query(s) ==
    /\ At(s, "deleteOrder", "query")
    /\ \E fail \in BOOLEAN :
        LET orderId == PgInt(reqs[s].id)
            found == orderId \in DOMAIN orders
        IN IF fail \/ orderId = NaN
           THEN /\ Finish(s, 500, "error")
                /\ UNCHANGED <<orders, history>>
           ELSE /\ orders' = [i \in DOMAIN orders \ {orderId} |-> orders[i]]
                /\ history' = [i \in DOMAIN history \ {orderId} |-> history[i]]
                /\ Finish(s, WriteCode(found), IF found THEN "ok" ELSE "early")
    /\ UNCHANGED <<users, nextUserId, nextOrderId, tokens, arrived>>

\* GET /stats: three SELECTs in a row on one client (orders by status,
\* COUNT of users, AVG completion time), then the response.
Stats_Query(s) ==
    /\ \E pc \in {"q1", "q2", "q3"} : At(s, "stats", pc)
    /\ \E fail \in BOOLEAN :
        IF fail
        THEN Finish(s, 500, "error")
        ELSE IF reqs[s].pc = "q3"
        THEN Finish(s, 200, "ok")
        ELSE /\ reqs' = [reqs EXCEPT
                     ![s].pc = IF reqs[s].pc = "q1" THEN "q2" ELSE "q3"]
             /\ last' = NoResp
                   /\ UNCHANGED checkedOut
    /\ UNCHANGED <<users, nextUserId, orders, nextOrderId, history, tokens,
                   arrived>>

Next ==
    \/ \E s \in Slots : StatsMv_Begin(s)
    \/ \E s \in Slots : Send_Begin(s)
    \/ \E s \in Slots : Login_Begin(s)
    \/ \E s \in Slots : ListUsers_Begin(s)
    \/ \E s \in Slots : CreateUser_Begin(s)
    \/ \E s \in Slots : DeleteUser_Begin(s)
    \/ \E s \in Slots : ListOrders_Begin(s)
    \/ \E s \in Slots : PatchStatus_Begin(s)
    \/ \E s \in Slots : DeleteOrder_Begin(s)
    \/ \E s \in Slots : Stats_Begin(s)
    \/ \E s \in Slots : StatsMv_Query(s)
    \/ \E s \in Slots : Send_Query(s)
    \/ \E s \in Slots : Login_Query(s)
    \/ \E s \in Slots : Login_Compare(s)
    \/ \E s \in Slots : ListUsers_Query(s)
    \/ \E s \in Slots : CreateUser_Query(s)
    \/ \E s \in Slots : DeleteUser_Query(s)
    \/ \E s \in Slots : ListOrders_Query(s)
    \/ \E s \in Slots : PatchStatus_Query(s)
    \/ \E s \in Slots : DeleteOrder_Query(s)
    \/ \E s \in Slots : Stats_Query(s)

Spec == Init /\ [][Next]_vars

\* The server after POST /login of "a", POST /users {username: "c",
\* role: "ADMIN"} by "a" and POST /login of "c": two administrators, each
\* holding a token, and the manager.
SecondAdmin == [username |-> "c", password_hash |-> Hash("p"), role |-> "ADMIN"]

InitAdmins ==
    /\ users = SeedUsers @@ (3 :> SecondAdmin)
    /\ nextUserId = 4
    /\ orders = (1 :> [status |-> "NEW", updated |-> FALSE])
    /\ nextOrderId = 2
    /\ history = (1 :> <<"NEW">>)
    /\ tokens = {generateToken(1, SeedUsers[1]), generateToken(3, SecondAdmin)}
    /\ reqs = [s \in Slots |-> Idle]
    /\ checkedOut = 0
    /\ last = NoResp
    /\ arrived = 0
    /\ orderItems = <<>>
    /\ routeSteps = <<>>
    /\ reports = <<>>
    /\ operationLogs = <<>>
    /\ now = 0

\* Only DELETE /users/:id requests arrive.
NextAdmins ==
    \/ \E s \in Slots : DeleteUser_Begin(s)
    \/ \E s \in Slots : DeleteUser_Query(s)

SpecAdmins == InitAdmins /\ [][NextAdmins]_vars

----------------------------------------------------------------------------
(* The routing tables and the analytical queries.                           *)

MaxStepNo == 3     \* step_no values of an order item (SpecRoute)
MaxWipSteps == 2   \* rows of route_steps (SpecWip)

\* SQL NULL, and a value that is not NULL.
NULL == <<>>

Some(v) == <<v>>

Val(x) == x[1]

StepStatuses == {"PLANNED", "IN_PROGRESS", "DONE"}

\* Catalogs: products(id -> name), operations(id -> name, default_minutes),
\* workshops(id -> name).
products == (1 :> "bracket") @@ (2 :> "flange")

operations ==
    (1 :> [name |-> "cutting", default_minutes |-> Some(20)])
        @@ (2 :> [name |-> "welding", default_minutes |-> NULL])

workshops == (1 :> "assembly") @@ (2 :> "machining")

\* The position of a text in ORDER BY (the names of the catalogs, sorted).
Collation == <<"assembly", "bracket", "cutting", "flange", "lathe",
               "machining", "press", "welding">>

Collate(text) == CHOOSE i \in 1..Len(Collation) : Collation[i] = text

\* LEFT JOIN workshops w ON w.id = rs.workshop_id: w.name, or NULL.
WorkshopName(rs) ==
    IF rs.workshop_id # NULL /\ Val(rs.workshop_id) \in DOMAIN workshops
    THEN Some(workshops[Val(rs.workshop_id)])
    ELSE NULL

\* The route steps that survive the inner joins orders - order_items -
\* products - route_steps - operations.
JoinedSteps ==
    {id \in DOMAIN routeSteps :
        /\ routeSteps[id].order_item_id \in DOMAIN orderItems
        /\ orderItems[routeSteps[id].order_item_id].order_id \in DOMAIN orders
        /\ orderItems[routeSteps[id].order_item_id].product_id \in DOMAIN products
        /\ routeSteps[id].operation_id \in DOMAIN operations}

ItemOf(id) == routeSteps[id].order_item_id

OrderOf(id) == orderItems[ItemOf(id)].order_id

\* Q5, WITH steps AS (...): one row per joined route step.
Q5Steps ==
    {[order_id |-> OrderOf(id),
      product |-> products[orderItems[ItemOf(id)].product_id],
      route_step_id |-> id,
      step_no |-> routeSteps[id].step_no,
      operation |-> operations[routeSteps[id].operation_id].name,
      workshop |-> WorkshopName(routeSteps[id]),
      status |-> routeSteps[id].status] : id \in JoinedSteps}

\* Q5, WHERE status IN ('IN_PROGRESS', 'PLANNED').
Q5Where(row) == row.status \in {"IN_PROGRESS", "PLANNED"}

Q5RankIgnored(status) == 0

\* Q5, CASE status WHEN 'IN_PROGRESS' THEN 0 ELSE 1 END.
Q5Rank(status) == IF status = "IN_PROGRESS" THEN 0 ELSE 1

\* Lexicographic order of two tuples of numbers of the same length.
RECURSIVE LexLess(_, _)
LexLess(a, b) ==
    IF a = <<>> THEN FALSE
    ELSE IF a[1] # b[1] THEN a[1] < b[1]
    ELSE LexLess(Tail(a), Tail(b))

\* Q5, ORDER BY order_id, product, CASE ..., step_no.
Q5Key(row) ==
    <<row.order_id, Collate(row.product), Q5Rank(row.status), row.step_no>>

\* Rows with equal ORDER BY keys come in whatever order the executor
\* produces them: by ascending or by descending row id here.
TieKey(id, desc) == IF desc THEN 0 - id ELSE id

RECURSIVE Q5Sorted(_, _)
Q5Sorted(rows, desc) ==
    IF rows = {} THEN <<>>
    ELSE LET first == CHOOSE r \in rows : \A x \in rows \ {r} :
                          LexLess(Q5Key(r) \o <<TieKey(r.route_step_id, desc)>>,
                                  Q5Key(x) \o <<TieKey(x.route_step_id, desc)>>)
         IN <<first>> \o Q5Sorted(rows \ {first}, desc)

Q5(desc) == Q5Sorted({row \in Q5Steps : Q5Where(row)}, desc)

\* Q5 is run.
RunQ5 ==
    /\ \E desc \in BOOLEAN : reports' = [q \in {"Q5"} |-> Q5(desc)]
    /\ UNCHANGED <<apiVars, orders, orderItems, routeSteps, operationLogs, now>>

\* The route steps of a routing: step (item, step_no) has the status
\* routing[item, step_no], or does not exist.
RouteStepId(item, stepNo) == (item - 1) * MaxStepNo + stepNo

RouteStepsOf(routing) ==
    LET cells == {c \in DOMAIN routing : routing[c] # "NONE"}
        CellOf(id) == CHOOSE c \in cells : RouteStepId(c[1], c[2]) = id
    IN [id \in {RouteStepId(c[1], c[2]) : c \in cells} |->
           [order_item_id |-> CellOf(id)[1],
            step_no |-> CellOf(id)[2],
            operation_id |-> 1,
            workshop_id |-> NULL,
            status |-> routing[CellOf(id)],
            planned_minutes |-> NULL]]

\* The API is idle on its initial database.
ApiIdle ==
    /\ users = SeedUsers
    /\ nextUserId = 3
    /\ nextOrderId = 3
    /\ history = <<>>
    /\ tokens = {}
    /\ reqs = [s \in Slots |-> Idle]
    /\ checkedOut = 0
    /\ last = NoResp
    /\ arrived = 0

\* Two orders in progress; item 1 of order 1, item 2 of order 1 with the
\* same product or of order 2 with another; any routing of the two items
\* over step_no 1..MaxStepNo (step_no is unique within an item).
InitRoute ==
    /\ ApiIdle
    /\ orders = [o \in {1, 2} |-> [status |-> "IN_PROGRESS", updated |-> FALSE]]
    /\ \E second \in {[order_id |-> 1, product_id |-> 1],
                       [order_id |-> 2, product_id |-> 2]} :
           orderItems = (1 :> [order_id |-> 1, product_id |-> 1]) @@ (2 :> second)
    /\ \E routing \in [{1, 2} \X (1..MaxStepNo) -> StepStatuses \cup {"NONE"}] :
           routeSteps = RouteStepsOf(routing)
    /\ reports = <<>>
    /\ operationLogs = <<>>
    /\ now = 0

SpecRoute == InitRoute /\ [][RunQ5]_vars

\* Q15 and Q16: COALESCE(rs.planned_minutes, op.default_minutes, 0).
Coalesce3(a, b, c) == IF a # NULL THEN a ELSE IF b # NULL THEN b ELSE c

StepMinutes(id) ==
    Val(Coalesce3(routeSteps[id].planned_minutes,
                  operations[routeSteps[id].operation_id].default_minutes,
                  Some(0)))

RECURSIVE SumMinutes(_)
SumMinutes(ids) ==
    IF ids = {} THEN 0
    ELSE LET id == CHOOSE x \in ids : TRUE
         IN StepMinutes(id) + SumMinutes(ids \ {id})

\* SUM(...) FILTER (WHERE rs.status <> 'DONE') over the rows `ids` of a
\* group: NULL when no row of the group passes the filter.
SumNotDone(ids) ==
    LET kept == {id \in ids : routeSteps[id].status # "DONE"}
    IN IF kept = {} THEN NULL ELSE Some(SumMinutes(kept))

\* ROUND(n / d, 0) of non-negative integers, halves rounded up.
RoundDiv(n, d) == (2 * n + d) \div (2 * d)

\* Q15: 1500 AS rate_rub_per_hour.
RateRubPerHour == 1500

\* Q15, WITH remaining AS (...): one row per order with status PLANNED or
\* IN_PROGRESS that has joined route steps.
Q15Remaining ==
    LET rows == {id \in JoinedSteps :
                    orders[OrderOf(id)].status \in {"PLANNED", "IN_PROGRESS"}}
    IN {[order_id |-> o,
         remaining_minutes |-> SumNotDone({id \in rows : OrderOf(id) = o})] :
           o \in {OrderOf(id) : id \in rows}}

\* Q15, the outer SELECT: remaining_hours in hundredths of an hour
\* (ROUND(.., 2)), nzp_cost_rub = ROUND(minutes / 60.0 * 1500, 0); both NULL
\* when remaining_minutes is.
Q15Row(r) ==
    [order_id |-> r.order_id,
     remaining_minutes |-> r.remaining_minutes,
     remaining_hours |->
         IF r.remaining_minutes = NULL THEN NULL
         ELSE Some(RoundDiv(Val(r.remaining_minutes) * 100, 60)),
     rate_rub_per_hour |-> RateRubPerHour,
     nzp_cost_rub |->
         IF r.remaining_minutes = NULL THEN NULL
         ELSE Some(RoundDiv(Val(r.remaining_minutes) * RateRubPerHour, 60))]

\* ORDER BY cost DESC: NULL sorts first, then the larger cost.
CostKey(cost) == IF cost = NULL THEN 0 ELSE 0 - Val(cost)

RECURSIVE Q15Sorted(_)
Q15Sorted(rows) ==
    IF rows = {} THEN <<>>
    ELSE LET first == CHOOSE r \in rows : \A x \in rows \ {r} :
                          LexLess(<<IF r.nzp_cost_rub = NULL THEN 0 ELSE 1,
                                    CostKey(r.nzp_cost_rub), r.order_id>>,
                                  <<IF x.nzp_cost_rub = NULL THEN 0 ELSE 1,
                                    CostKey(x.nzp_cost_rub), x.order_id>>)
         IN <<first>> \o Q15Sorted(rows \ {first})

Q15 == Q15Sorted({Q15Row(r) : r \in Q15Remaining})

\* Q16, WITH wip AS (...): route_steps JOIN operations LEFT JOIN workshops,
\* GROUP BY w.name; the steps without workshop form the NULL group.
Q16Wip ==
    LET rows == {id \in DOMAIN routeSteps :
                    routeSteps[id].operation_id \in DOMAIN operations}
    IN {[workshop |-> w,
         wip_minutes |->
             SumNotDone({id \in rows : WorkshopName(routeSteps[id]) = w})] :
           w \in {WorkshopName(routeSteps[id]) : id \in rows}}

\* Q16, the outer SELECT ... WHERE wip_minutes > 0 (not true of NULL).
Q16Row(r) ==
    [workshop |-> r.workshop,
     wip_minutes |-> r.wip_minutes,
     wip_hours |-> Some(RoundDiv(Val(r.wip_minutes) * 100, 60)),
     rate_rub_per_hour |-> RateRubPerHour,
     wip_cost_rub |-> Some(RoundDiv(Val(r.wip_minutes) * RateRubPerHour, 60))]

WorkshopKey(w) == IF w = NULL THEN 0 ELSE Collate(Val(w))

RECURSIVE Q16Sorted(_)
Q16Sorted(rows) ==
    IF rows = {} THEN <<>>
    ELSE LET first == CHOOSE r \in rows : \A x \in rows \ {r} :
                          LexLess(<<CostKey(r.wip_cost_rub), WorkshopKey(r.workshop)>>,
                                  <<CostKey(x.wip_cost_rub), WorkshopKey(x.workshop)>>)
         IN <<first>> \o Q16Sorted(rows \ {first})

Q16 ==
    Q16Sorted({Q16Row(r) : r \in {w \in Q16Wip :
                   w.wip_minutes # NULL /\ Val(w.wip_minutes) > 0}})

\* Q15 is run.
RunQ15 ==
    /\ reports' = [q \in DOMAIN reports \cup {"Q15"} |->
                      IF q = "Q15" THEN Q15 ELSE reports[q]]
    /\ UNCHANGED <<apiVars, orders, orderItems, routeSteps, operationLogs, now>>

\* Q16 is run.
RunQ16 ==
    /\ reports' = [q \in DOMAIN reports \cup {"Q16"} |->
                      IF q = "Q16" THEN Q16 ELSE reports[q]]
    /\ UNCHANGED <<apiVars, orders, orderItems, routeSteps, operationLogs, now>>

\* A row of route_steps as SpecWip draws it.
WipSteps ==
    [order_item_id : {1, 2}, step_no : {1}, operation_id : DOMAIN operations,
     workshop_id : {NULL, Some(1), Some(2)}, status : StepStatuses,
     planned_minutes : {NULL, Some(30)}]

\* Order 1 in any status with item 1, order 2 in progress with item 2, and
\* up to MaxWipSteps route steps (step_no = id) of those items, of any
\* operation, workshop, status and planned duration.
InitWip ==
    /\ ApiIdle
    /\ \E st \in OrderStatuses :
           orders = (1 :> [status |-> st, updated |-> FALSE])
                       @@ (2 :> [status |-> "IN_PROGRESS", updated |-> FALSE])
    /\ orderItems = (1 :> [order_id |-> 1, product_id |-> 1])
                        @@ (2 :> [order_id |-> 2, product_id |-> 2])
    /\ \E n \in 0..MaxWipSteps : \E rows \in [1..n -> WipSteps] :
           routeSteps = [id \in 1..n |-> [rows[id] EXCEPT !.step_no = id]]
    /\ reports = <<>>
    /\ operationLogs = <<>>
    /\ now = 0

NextWip == RunQ15 \/ RunQ16

SpecWip == InitWip /\ [][NextWip]_vars

----------------------------------------------------------------------------
(* The overdue-steps report Q13 and the clock.                              *)

MaxTicks == 3   \* longest advances of the clock in a run (SpecOverdue)

\* The clock counts seconds (EXTRACT(EPOCH ...)); it advances by 3 or by 6
\* minutes at a time, up to Horizon.
ClockSteps == {180, 360}

Horizon == MaxTicks * 360

\* The values of route_steps.planned_finish in SpecOverdue.
PlannedFinishes == {NULL, Some(0), Some(360)}

\* Q13, WHERE rs.planned_finish IS NOT NULL AND rs.planned_finish < NOW()
\* AND rs.status <> 'DONE'; the first variant forgets the status.
Q13WhereAnyStatus(rs, t) ==
    rs.planned_finish # NULL /\ Val(rs.planned_finish) < t

Q13Where(rs, t) ==
    /\ rs.planned_finish # NULL
    /\ Val(rs.planned_finish) < t
    /\ rs.status # "DONE"

\* Q13, ROUND(EXTRACT(EPOCH FROM (NOW() - rs.planned_finish)) / 3600.0, 1),
\* in tenths of an hour.
HoursOverdue(rs, t) == RoundDiv((t - Val(rs.planned_finish)) * 10, 3600)

\* Q13, the SELECT list over the joined route steps that pass the WHERE.
Q13Rows(t) ==
    {[order_id |-> OrderOf(id),
      product |-> products[orderItems[ItemOf(id)].product_id],
      step_no |-> routeSteps[id].step_no,
      operation |-> operations[routeSteps[id].operation_id].name,
      workshop |-> WorkshopName(routeSteps[id]),
      step_status |-> routeSteps[id].status,
      planned_finish |-> routeSteps[id].planned_finish,
      checked_at |-> t,
      hours_overdue |-> HoursOverdue(routeSteps[id], t)] :
        id \in {x \in JoinedSteps : Q13Where(routeSteps[x], t)}}

\* Q13, ORDER BY hours_overdue DESC; rows with equal hours_overdue come in
\* ascending or in descending order of their step.
RECURSIVE Q13Sorted(_, _)
Q13Sorted(rows, desc) ==
    IF rows = {} THEN <<>>
    ELSE LET first == CHOOSE r \in rows : \A x \in rows \ {r} :
                          LexLess(<<0 - r.hours_overdue, TieKey(r.step_no, desc)>>,
                                  <<0 - x.hours_overdue, TieKey(x.step_no, desc)>>)
         IN <<first>> \o Q13Sorted(rows \ {first}, desc)

Q13(t, desc) == Q13Sorted(Q13Rows(t), desc)

\* Q13 is run at the current instant.
RunQ13 ==
    /\ \E desc \in BOOLEAN :
           reports' = [q \in DOMAIN reports \cup {"Q13"} |->
                          IF q = "Q13" THEN Q13(now, desc) ELSE reports[q]]
    /\ UNCHANGED <<apiVars, orders, orderItems, routeSteps, operationLogs, now>>

\* Time passes.
Tick ==
    /\ \E d \in ClockSteps : now + d <= Horizon /\ now' = now + d
    /\ UNCHANGED <<apiVars, orders, orderItems, routeSteps, reports, operationLogs>>

\* The shop floor starts or finishes a route step (no code of src/ writes
\* route_steps; the data model's step life cycle PLANNED -> IN_PROGRESS ->
\* DONE).
AdvanceStep ==
    /\ \E id \in DOMAIN routeSteps :
           /\ routeSteps[id].status # "DONE"
           /\ routeSteps' = [routeSteps EXCEPT ![id].status =
                  IF routeSteps[id].status = "PLANNED" THEN "IN_PROGRESS"
                  ELSE "DONE"]
    /\ UNCHANGED <<apiVars, orders, orderItems, reports, operationLogs, now>>

\* Two orders in progress with one item each; route step i belongs to item
\* i, has step_no i, any status and any planned_finish.
InitOverdue ==
    /\ ApiIdle
    /\ orders = [o \in {1, 2} |-> [status |-> "IN_PROGRESS", updated |-> FALSE]]
    /\ orderItems = (1 :> [order_id |-> 1, product_id |-> 1])
                        @@ (2 :> [order_id |-> 2, product_id |-> 2])
    /\ \E st \in [{1, 2} -> StepStatuses], pf \in [{1, 2} -> PlannedFinishes] :
           routeSteps = [id \in {1, 2} |->
               [order_item_id |-> id, step_no |-> id, operation_id |-> id,
                workshop_id |-> NULL, status |-> st[id],
                planned_minutes |-> NULL, planned_finish |-> pf[id]]]
    /\ reports = <<>>
    /\ operationLogs = <<>>
    /\ now = 0

NextOverdue == RunQ13 \/ Tick \/ AdvanceStep

SpecOverdue == InitOverdue /\ [][NextOverdue]_vars

----------------------------------------------------------------------------
(* The operation logs and the reports Q8 and Q9.                            *)

MaxLogs == 2            \* rows of operation_logs (SpecLogs)
MaxEquipmentLogs == 3   \* rows of operation_logs (SpecEquipment)

\* Catalog equipment(id -> name, workshop_id).
equipment ==
    (1 :> [name |-> "lathe", workshop_id |-> Some(2)])
        @@ (2 :> [name |-> "press", workshop_id |-> NULL])

\* The rows inserted into operation_logs in SpecLogs, any in the columns Q9
\* reads: a log of route step 1 or 2, started or not, finished after 90 or
\* 240 seconds or not.
LogRows ==
    [route_step_id : {1, 2}, equipment_id : {1}, status : {"DONE"},
     started_at : {NULL, Some(0)},
     finished_at : {NULL, Some(90), Some(240)}]

\* The rows inserted into operation_logs in SpecEquipment, any in the
\* columns Q8 reads: a log on unit 1 or 2, running or done.
EquipmentLogRows ==
    [route_step_id : {1}, equipment_id : {1, 2},
     status : {"IN_PROGRESS", "DONE"},
     started_at : {Some(0)}, finished_at : {NULL}]

RECURSIVE GCD(_, _)
GCD(a, b) == IF b = 0 THEN a ELSE GCD(b, a % b)

\* The rational n / d (n >= 0, d > 0) in lowest terms.
Frac(n, d) == [num |-> n \div GCD(n, d), den |-> d \div GCD(n, d)]

FracLess(a, b) == a.num * b.den < b.num * a.den

\* Q9, EXTRACT(EPOCH FROM (ol.finished_at - ol.started_at)), in seconds:
\* NULL when one of the two is.
LogSeconds(ol) ==
    IF ol.finished_at = NULL \/ ol.started_at = NULL THEN NULL
    ELSE Some(Val(ol.finished_at) - Val(ol.started_at))

\* Q9, WHERE ol.finished_at IS NOT NULL AND ol.started_at IS NOT NULL; the
\* first variant forgets started_at.
Q9WhereFinished(ol) == ol.finished_at # NULL

Q9Where(ol) == ol.finished_at # NULL /\ ol.started_at # NULL

\* Q9, operation_logs JOIN route_steps JOIN operations WHERE ...: the ids
\* of the logs that are joined and kept.
Q9Joined(logs) ==
    {id \in DOMAIN logs :
        /\ logs[id].route_step_id \in DOMAIN routeSteps
        /\ routeSteps[logs[id].route_step_id].operation_id \in DOMAIN operations
        /\ Q9Where(logs[id])}

\* op.name of a joined log.
LogOperation(logs, id) ==
    operations[routeSteps[logs[id].route_step_id].operation_id].name

RECURSIVE SumSeconds(_, _)
SumSeconds(logs, ids) ==
    IF ids = {} THEN 0
    ELSE LET id == CHOOSE x \in ids : TRUE
         IN Val(LogSeconds(logs[id])) + SumSeconds(logs, ids \ {id})

\* AVG(seconds / 60.0) over the rows `ids` of a group: NULL values are not
\* averaged, and the average of none is NULL.
AvgMinutes(logs, ids) ==
    LET known == {id \in ids : LogSeconds(logs[id]) # NULL}
    IN IF known = {} THEN NULL
       ELSE Some(Frac(SumSeconds(logs, known), 60 * Cardinality(known)))

\* Q9, GROUP BY op.name with AVG(...) and COUNT(*).
Q9Rows(logs) ==
    {[operation |-> name,
      avg_minutes |->
          AvgMinutes(logs, {id \in Q9Joined(logs) : LogOperation(logs, id) = name}),
      done_count |->
          Cardinality({id \in Q9Joined(logs) : LogOperation(logs, id) = name})] :
        name \in {LogOperation(logs, id) : id \in Q9Joined(logs)}}

\* Q9, ORDER BY avg_minutes DESC: NULL first, then the larger average;
\* equal averages in ascending or in descending order of the name.
Q9Before(r, x, desc) ==
    IF r.avg_minutes = x.avg_minutes
    THEN TieKey(Collate(r.operation), desc) < TieKey(Collate(x.operation), desc)
    ELSE \/ r.avg_minutes = NULL
         \/ /\ x.avg_minutes # NULL
            /\ FracLess(Val(x.avg_minutes), Val(r.avg_minutes))

RECURSIVE Q9Sorted(_, _)
Q9Sorted(rows, desc) ==
    IF rows = {} THEN <<>>
    ELSE LET first == CHOOSE r \in rows :
                          \A x \in rows \ {r} : Q9Before(r, x, desc)
         IN <<first>> \o Q9Sorted(rows \ {first}, desc)

Q9(desc) == Q9Sorted(Q9Rows(operationLogs), desc)

\* Q8, equipment e LEFT JOIN operation_logs ol ON ol.equipment_id = e.id:
\* the logs of the unit, or one row of NULLs when it has none.
Q8LeftJoin(e) ==
    LET matched == {[id |-> Some(id), status |-> Some(operationLogs[id].status)] :
                       id \in {x \in DOMAIN operationLogs :
                                   operationLogs[x].equipment_id = e}}
    IN IF matched = {} THEN {[id |-> NULL, status |-> NULL]} ELSE matched

\* Q8, GROUP BY e.id, e.name, w.name with COUNT(*) FILTER (WHERE ol.status =
\* 'IN_PROGRESS') and COUNT(*).
Q8Rows ==
    {[id |-> e,
      equipment |-> equipment[e].name,
      workshop |-> WorkshopName(equipment[e]),
      active_ops |->
          Cardinality({r \in Q8LeftJoin(e) : r.status = Some("IN_PROGRESS")}),
      total_logs |-> Cardinality(Q8LeftJoin(e))] : e \in DOMAIN equipment}

\* Q8, ORDER BY active_ops DESC, e.name.
RECURSIVE Q8Sorted(_)
Q8Sorted(rows) ==
    IF rows = {} THEN <<>>
    ELSE LET first == CHOOSE r \in rows : \A x \in rows \ {r} :
                          LexLess(<<0 - r.active_ops, Collate(r.equipment)>>,
                                  <<0 - x.active_ops, Collate(x.equipment)>>)
         IN <<first>> \o Q8Sorted(rows \ {first})

Q8 == Q8Sorted(Q8Rows)

\* Q8 is run.
RunQ8 ==
    /\ reports' = [q \in DOMAIN reports \cup {"Q8"} |->
                      IF q = "Q8" THEN Q8 ELSE reports[q]]
    /\ UNCHANGED <<apiVars, orders, orderItems, routeSteps, operationLogs, now>>

\* Q9 is run.
RunQ9 ==
    /\ \E desc \in BOOLEAN :
           reports' = [q \in DOMAIN reports \cup {"Q9"} |->
                          IF q = "Q9" THEN Q9(desc) ELSE reports[q]]
    /\ UNCHANGED <<apiVars, orders, orderItems, routeSteps, operationLogs, now>>

\* A row is inserted into operation_logs (no code of src/ writes the table;
\* its id is the next of the serial).
AddLog ==
    /\ Len(operationLogs) < MaxLogs
    /\ \E row \in LogRows : operationLogs' = Append(operationLogs, row)
    /\ UNCHANGED <<apiVars, orders, orderItems, routeSteps, reports, now>>

AddEquipmentLog ==
    /\ Len(operationLogs) < MaxEquipmentLogs
    /\ \E row \in EquipmentLogRows : operationLogs' = Append(operationLogs, row)
    /\ UNCHANGED <<apiVars, orders, orderItems, routeSteps, reports, now>>

\* One order in progress with one item of two route steps, step i being
\* operation i; no logs yet.
InitLogs ==
    /\ ApiIdle
    /\ orders = (1 :> [status |-> "IN_PROGRESS", updated |-> FALSE])
    /\ orderItems = (1 :> [order_id |-> 1, product_id |-> 1])
    /\ routeSteps = [id \in {1, 2} |->
           [order_item_id |-> 1, step_no |-> id, operation_id |-> id,
            workshop_id |-> NULL, status |-> "IN_PROGRESS",
            planned_minutes |-> NULL]]
    /\ reports = <<>>
    /\ operationLogs = <<>>
    /\ now = 0

NextLogs == RunQ9 \/ AddLog

SpecLogs == InitLogs /\ [][NextLogs]_vars

NextEquipment == RunQ8 \/ AddEquipmentLog

SpecEquipment == InitLogs /\ [][NextEquipment]_vars

----------------------------------------------------------------------------
(* Properties of the HTTP API, checked under Spec. *)

\* The request carries a token jwt.verify accepts.
Authenticated(r) == r.user.role \in Roles

LastStatus(o) == history[o][Len(history[o])]

\* This step sent a response.
Responded == last' # NoResp

\* C1: a status transition and its ledger append are one all-or-nothing
\* unit: every order that has ledger rows has the status of the latest one,
\* and right after a successful PATCH /orders/:id/status the ledger of that
\* order ends with the status just written.
C1_StatusFollowsLedger ==
    /\ \A o \in DOMAIN orders \cap DOMAIN history :
           history[o] # <<>> => LastStatus(o) = orders[o].status
    /\ (last.req.kind = "patchStatus" /\ last.code = 200) =>
           LET o == PgInt(last.req.id)
           IN /\ o \in DOMAIN history
              /\ history[o] # <<>>
              /\ LastStatus(o) = last.req.status

\* C4: only ADMIN principals obtain the statistics reports: no GET /stats or
\* GET /stats/mv of another principal gets to read from the store, and such
\* a request is answered 403 (a failure to get a connection, 500, set aside).
C4_StatsAdminOnly ==
    /\ \A s \in Slots :
           reqs[s].kind \in {"stats", "statsmv"} => reqs[s].user.role = "ADMIN"
    /\ (/\ last.req.kind \in {"stats", "statsmv"}
        /\ Authenticated(last.req)
        /\ last.req.user.role # "ADMIN"
        /\ last.code # 500) => last.code = 403

\* C5: every order's status is one of the five of the data model, and a
\* PATCH /orders/:id/status with another status value is answered 400
\* before any store access (a failure to get a connection, 500, set aside).
C5_StatusAllowList ==
    /\ \A o \in DOMAIN orders : orders[o].status \in OrderStatuses
    /\ \A s \in Slots :
           reqs[s].kind = "patchStatus" => reqs[s].status \in OrderStatuses
    /\ (/\ last.req.kind = "patchStatus"
        /\ Authenticated(last.req)
        /\ last.req.status \notin OrderStatuses
        /\ last.code # 500) => last.code = 400

\* The request is a DELETE /users/:id of an authenticated principal whose
\* :id is the principal's own id.
SelfDelete(r) ==
    /\ r.kind = "deleteUser"
    /\ Authenticated(r)
    /\ ParseInt(r.id) = r.user.id

\* C6: a DELETE /users/:id on the principal's own id never gets past the
\* handler's checks (it holds no pool client), and the step that answers it
\* refuses it (400 for an ADMIN, 403 otherwise) and leaves the users table
\* and the pool as they were.
C6_SelfDeleteRejected ==
    [][/\ \A s \in Slots : ~SelfDelete(reqs'[s])
       /\ (Responded /\ SelfDelete(last'.req)) =>
              /\ last'.code = IF last'.req.user.role = "ADMIN" THEN 400 ELSE 403
              /\ users' = users
              /\ checkedOut' = checkedOut]_vars

\* C6 happens: an ADMIN who is in the users table was refused the deletion
\* of the own account.
C6_Witness ==
    /\ SelfDelete(last.req)
    /\ last.req.user.role = "ADMIN"
    /\ last.code = 400
    /\ last.req.user.id \in DOMAIN users

\* C7: every handler that checked a pool client out releases it exactly once
\* on every exit: the clients checked out are those of the requests still
\* in their try block, so none is checked out once all requests are answered.
C7_ConnectionsReleased ==
    /\ checkedOut = Cardinality({s \in Slots : reqs[s] # Idle})
    /\ (\A s \in Slots : reqs[s] = Idle) => checkedOut = 0

\* C7 happens: all requests of the run are answered, the last one by the
\* early 404 return inside the try block, and the pool is full again.
C7_Witness ==
    /\ arrived = MaxArrivals
    /\ \A s \in Slots : reqs[s] = Idle
    /\ last.code = 404
    /\ checkedOut = 0

\* The id the request addresses (NaN when :id is no number) is not in the
\* table the request writes.
AddressesMissing(r) ==
    \/ r.kind = "deleteUser" /\ ParseInt(r.id) \notin DOMAIN users
    \/ r.kind \in {"patchStatus", "deleteOrder"}
          /\ r.id # <<>> /\ PgInt(r.id) \notin DOMAIN orders

StoreUnchanged ==
    /\ users' = users
    /\ orders' = orders
    /\ history' = history

\* This step answered an authenticated PATCH /orders/:id/status,
\* DELETE /orders/:id or DELETE /users/:id whose id was not in the store.
AnsweredMissing ==
    /\ Responded
    /\ Authenticated(last'.req)
    /\ AddressesMissing(last'.req)

\* The request answered by this step had reached its query.
AnsweredAfterQuery == \E s \in Slots : reqs[s] # Idle /\ reqs'[s] = Idle

----------------------------------------------------------------------------
(* Properties of the queries, checked under SpecRoute and SpecWip. *)

Ran(q) == q \in DOMAIN reports

\* The rows of a Q5 report that belong to order item `item`, in report order.
ItemRows(item) ==
    SelectSeq(reports["Q5"], LAMBDA row : ItemOf(row.route_step_id) = item)

StepsWith(item, status) ==
    {id \in DOMAIN routeSteps :
        ItemOf(id) = item /\ routeSteps[id].status = status}

\* The step of the set `ids` with the smallest step_no.
FirstStep(ids) ==
    CHOOSE id \in ids :
        \A x \in ids : routeSteps[id].step_no <= routeSteps[x].step_no

\* C2: Q5 returns at most one step per order item, never a DONE step, and
\* none for an item without steps or with DONE steps only.
C2_OneCurrentStep ==
    Ran("Q5") =>
        \A item \in DOMAIN orderItems :
            /\ Len(ItemRows(item)) <= 1
            /\ \A k \in 1..Len(ItemRows(item)) : ItemRows(item)[k].status # "DONE"
            /\ (StepsWith(item, "PLANNED") \cup StepsWith(item, "IN_PROGRESS") = {})
                   => ItemRows(item) = <<>>

\* C3: the first row Q5 returns for an order item is its IN_PROGRESS step
\* with the smallest step_no when it has an IN_PROGRESS step, whatever the
\* step_no of its PLANNED steps, and its PLANNED step with the smallest
\* step_no when it has PLANNED steps only.
C3_InProgressFirst ==
    Ran("Q5") =>
        \A item \in DOMAIN orderItems :
            IF StepsWith(item, "IN_PROGRESS") # {}
            THEN /\ ItemRows(item) # <<>>
                 /\ ItemRows(item)[1].route_step_id =
                        FirstStep(StepsWith(item, "IN_PROGRESS"))
            ELSE StepsWith(item, "PLANNED") # {} =>
                 /\ ItemRows(item) # <<>>
                 /\ ItemRows(item)[1].route_step_id =
                        FirstStep(StepsWith(item, "PLANNED"))

\* C3 happens: an item has a PLANNED step 1 and an IN_PROGRESS step 2, and
\* Q5 gives step 2 first; the other item (1: DONE, 2: IN_PROGRESS,
\* 3: PLANNED) has step 2 first as well.
C3_Witness ==
    /\ Ran("Q5")
    /\ routeSteps[RouteStepId(1, 1)].status = "PLANNED"
    /\ routeSteps[RouteStepId(1, 2)].status = "IN_PROGRESS"
    /\ ItemRows(1)[1].step_no = 2
    /\ routeSteps[RouteStepId(2, 1)].status = "DONE"
    /\ routeSteps[RouteStepId(2, 2)].status = "IN_PROGRESS"
    /\ routeSteps[RouteStepId(2, 3)].status = "PLANNED"
    /\ ItemRows(2)[1].step_no = 2

\* The joined route steps of order o.
StepsOfOrder(o) == {id \in JoinedSteps : OrderOf(id) = o}

\* C9: for every order Q15 reports, remaining minutes and cost are values
\* (not NULL) that are >= 0; the minutes are the sum over the order's
\* non-DONE steps of planned_minutes, else default_minutes, else 0, which
\* is 0 when the order has steps but none that is not DONE.
C9_WipNonNegative ==
    Ran("Q15") =>
        \A k \in 1..Len(reports["Q15"]) :
            LET row == reports["Q15"][k]
                open == {id \in StepsOfOrder(row.order_id) :
                            routeSteps[id].status # "DONE"}
            IN /\ row.remaining_minutes # NULL
               /\ row.nzp_cost_rub # NULL
               /\ Val(row.remaining_minutes) >= 0
               /\ Val(row.nzp_cost_rub) >= 0
               /\ Val(row.remaining_minutes) = SumMinutes(open)
               /\ open = {} =>
                      Val(row.remaining_minutes) = 0 /\ Val(row.nzp_cost_rub) = 0

RECURSIVE SumColumn(_, _)
SumColumn(rows, column) ==
    IF rows = <<>> THEN 0
    ELSE (IF Head(rows)[column] = NULL THEN 0 ELSE Val(Head(rows)[column]))
             + SumColumn(Tail(rows), column)

\* C10: Q16 is the aggregation of Q15 regrouped by workshop: on the same
\* store, the wip_minutes of all workshop groups add up to the
\* remaining_minutes of all orders.
C10_WipTotalsAgree ==
    (Ran("Q15") /\ Ran("Q16")) =>
        SumColumn(reports["Q16"], "wip_minutes")
            = SumColumn(reports["Q15"], "remaining_minutes")

----------------------------------------------------------------------------
(* Properties of Q13, checked under SpecOverdue. *)

\* This step ran Q13 (and changed the report).
NewQ13 == reports' # reports /\ "Q13" \in DOMAIN reports'

\* The rows of a Q13 report, as a set.
RowSet(report) == {report[k] : k \in 1..Len(report)}

\* The step_no (the step, in SpecOverdue) of the steps that are overdue at
\* instant t by the definition of the data model.
OverdueAt(steps, t) ==
    {steps[id].step_no : id \in {x \in DOMAIN steps :
        /\ steps[x].planned_finish # NULL
        /\ Val(steps[x].planned_finish) < t
        /\ steps[x].status # "DONE"}}

\* C11: Q13 reports exactly the steps with a planned_finish strictly before
\* the evaluation instant and a status other than DONE, once each; every
\* hours_overdue is >= 0; and a step reported by the previous run of Q13 and
\* by this one does not have a smaller hours_overdue now.
C11_OverdueSteps ==
    [][NewQ13 =>
          LET rows == RowSet(reports'["Q13"])
          IN /\ {r.step_no : r \in rows} = OverdueAt(routeSteps, now)
             /\ Cardinality(rows) = Len(reports'["Q13"])
             /\ Cardinality(rows) = Cardinality(OverdueAt(routeSteps, now))
             /\ \A r \in rows : r.hours_overdue >= 0 /\ r.checked_at = now
             /\ "Q13" \in DOMAIN reports =>
                    \A r \in rows : \A old \in RowSet(reports["Q13"]) :
                        old.step_no = r.step_no =>
                            old.hours_overdue <= r.hours_overdue]_vars

\* C11 happens: Q13 was run 12 minutes after step 1 was due and reports
\* step 1, still unfinished, 0.2 hours overdue, and not step 2, which was
\* due as well but is DONE.
C11_Witness ==
    /\ "Q13" \in DOMAIN reports
    /\ Len(reports["Q13"]) = 1
    /\ reports["Q13"][1].step_no = 1
    /\ reports["Q13"][1].checked_at = 720
    /\ reports["Q13"][1].hours_overdue = 2
    /\ routeSteps[1].status # "DONE"
    /\ routeSteps[2].status = "DONE"
    /\ routeSteps[2].planned_finish = Some(0)
    /\ now = 720

----------------------------------------------------------------------------
(* Properties of Q9 (SpecLogs) and of Q8 (SpecEquipment). *)

\* This step ran query q and changed its report.
NewReport(q) ==
    /\ q \in DOMAIN reports'
    /\ q \in DOMAIN reports => reports'[q] # reports[q]

\* The logs of the operation named `name` that have both timestamps.
CompleteLogs(logs, name) ==
    {id \in DOMAIN logs :
        /\ LogOperation(logs, id) = name
        /\ logs[id].started_at # NULL
        /\ logs[id].finished_at # NULL}

OperationNames == {operations[o].name : o \in DOMAIN operations}

\* The row of operation `name` in the result of Q9 over `logs`, as a set.
Q9Of(logs, name) == {r \in Q9Rows(logs) : r.operation = name}

\* mean' = (n * mean + d) / (n + 1), d in seconds and the means in minutes.
IncrementalMean(mean, n, d, mean2) ==
    mean2.num * (n + 1) * mean.den * 60
        = mean2.den * (n * mean.num * 60 + d * mean.den)

\* C12: a run of Q9 gives, for every operation with logs that have both
\* timestamps, one row with the number of these logs and the mean of their
\* durations in minutes, and no row for another operation; a new log with
\* a NULL timestamp leaves Q9's result as it was, and a new complete log of
\* duration d turns the row (mean m, count n) of its operation into
\* ((n * m + d) / (n + 1), n + 1), or makes the row (d, 1) when there was
\* none, and leaves the other rows as they were.
C12_MeanDuration ==
    [][/\ NewReport("Q9") =>
            /\ RowSet(reports'["Q9"]) = Q9Rows(operationLogs)
            /\ Len(reports'["Q9"]) = Cardinality(Q9Rows(operationLogs))
            /\ \A name \in OperationNames :
                   LET done == CompleteLogs(operationLogs, name)
                   IN IF done = {} THEN Q9Of(operationLogs, name) = {}
                      ELSE Q9Of(operationLogs, name) =
                              {[operation |-> name,
                                done_count |-> Cardinality(done),
                                avg_minutes |->
                                    Some(Frac(SumSeconds(operationLogs, done),
                                              60 * Cardinality(done)))]}
       /\ operationLogs' # operationLogs =>
            LET id == Len(operationLogs')
                new == operationLogs'[id]
                name == LogOperation(operationLogs', id)
                before == Q9Of(operationLogs, name)
                after == Q9Of(operationLogs', name)
            IN IF new.started_at = NULL \/ new.finished_at = NULL
               THEN Q9Rows(operationLogs') = Q9Rows(operationLogs)
               ELSE /\ Q9Rows(operationLogs') \ after = Q9Rows(operationLogs) \ before
                    /\ Cardinality(after) = 1
                    /\ \A r2 \in after :
                           IF before = {}
                           THEN /\ r2.done_count = 1
                                /\ r2.avg_minutes = Some(Frac(Val(LogSeconds(new)), 60))
                           ELSE \A r \in before :
                                    /\ r2.done_count = r.done_count + 1
                                    /\ IncrementalMean(Val(r.avg_minutes), r.done_count,
                                                       Val(LogSeconds(new)),
                                                       Val(r2.avg_minutes))]_vars

\* C12 happens: the operation of step 1 has a log of 90 and a log of 240
\* seconds, and Q9 reports it with count 2 and mean 11/4 minutes.
C12_Witness ==
    /\ "Q9" \in DOMAIN reports
    /\ Len(operationLogs) = 2
    /\ \A id \in 1..2 : operationLogs[id].route_step_id = 1
                           /\ operationLogs[id].started_at = Some(0)
    /\ operationLogs[1].finished_at = Some(90)
    /\ operationLogs[2].finished_at = Some(240)
    /\ reports["Q9"] = <<[operation |-> "cutting", done_count |-> 2,
                           avg_minutes |-> Some([num |-> 11, den |-> 4])]>>

\* The logs of equipment unit e, and those of them that are IN_PROGRESS.
LogsOf(e) == {id \in DOMAIN operationLogs : operationLogs[id].equipment_id = e}

ActiveLogsOf(e) == {id \in LogsOf(e) : operationLogs[id].status = "IN_PROGRESS"}

\* C13: a run of Q8 gives one row per equipment unit, with active_ops the
\* number of the unit's IN_PROGRESS logs and total_logs the number of its
\* logs: 0 and 0 for a unit without logs.
C13_EquipmentUtilization ==
    [][NewReport("Q8") =>
          /\ Len(reports'["Q8"]) = Cardinality(DOMAIN equipment)
          /\ \A e \in DOMAIN equipment :
                 \E k \in 1..Len(reports'["Q8"]) :
                     /\ reports'["Q8"][k].id = e
                     /\ reports'["Q8"][k].active_ops = Cardinality(ActiveLogsOf(e))
                     /\ reports'["Q8"][k].total_logs = Cardinality(LogsOf(e))]_vars

----------------------------------------------------------------------------
(* Property of the users table, checked under SpecAdmins. *)

\* C14: whatever DELETE /users/:id requests are made, in any order and
\* interleaving, the users table keeps at least one ADMIN.
C14_AdminRemains == \E u \in DOMAIN users : users[u].role = "ADMIN"

====
